---- MODULE Spec2Model ----
(***************************************************************************)
(* State-machine model of the reisen stream/frame pipeline:                *)
(* Media (container), baseStream and its VideoStream / AudioStream         *)
(* specialisations, bitstream filter lifecycle, ReadPacket / ReadFrame.    *)
(*                                                                         *)
(* Native handles are modelled by their allocation state.  A pointer field *)
(* is "nil", a live handle, or "freed" (a non-nil pointer to released      *)
(* memory).  Native calls that can fail take their outcome as an input.    *)
(***************************************************************************)
EXTENDS Integers, Sequences, FiniteSets

\* ------------------------------------------------------------------ bounds
\* Number of packets of the container's source.
MaxPackets == 3
\* Largest per-frame audio output size (av_samples_get_buffer_size result).
MaxFrameSize == 2

\* Pictures a decoder may hold back before it outputs the first one.
MaxDelay == 1

\* The largest pts of a frame handed to PresentationOffset, in units of
\* 10^9 ticks.
MaxGigaTicks == 10

\* ------------------------------------------------------- container layout
\* Media.findStreams: one Stream per native sub-stream, in source order.
\* Sub-stream 0 is a video stream, sub-stream 1 an audio stream.
StreamIds == {0, 1}

StreamKind(i) == IF i = 0 THEN "video" ELSE "audio"

\* stream_index of the i-th packet of the source (packets interleave).
SourceStreamIndex(i) == (i - 1) % 2

\* pts, in ticks of the owning stream, of the i-th packet of the source.
PacketPts(i) == (i - 1) \div 2

\* The pts of a packet that carries none (AV_NOPTS_VALUE after av_packet_unref).
NoPts == -1

\* Filter specification strings passed to ApplyFilter.
FilterStrings == {"h264_mp4toannexb"}

\* Output dimensions passed to VideoStream.OpenDecode; <<1, 1>> is the
\* coded size used by VideoStream.Open.
CodedDims == <<1, 1>>

Dims == {CodedDims, <<2, 1>>}

\* av_image_get_buffer_size(AV_PIX_FMT_RGBA, w, h, 1): four bytes per pixel.
ImageBufferSize(w, h) == 4 * w * h

\* ----------------------------------------------------------- stream record
\* new(VideoStream) / new(AudioStream) in findStreams: every field zero.
NewStream(i) ==
  [ kind            |-> StreamKind(i),
    index           |-> i,
    codecCtx        |-> "nil",     \* "nil" | "alloc" | "open" | "draining"
    frame           |-> "nil",     \* "nil" | "live"
    buffered        |-> <<>>,      \* pts of the pictures held in codecCtx
    scratch         |-> NoPts,     \* pts of the picture in the output buffer
    filterArgs      |-> "",
    filterCtx       |-> "nil",     \* "nil" | "alloc" | "init"
    filterInPacket  |-> "nil",     \* "nil" | "blank" | "ref" | "freed"
    filterOutPacket |-> "nil",     \* "nil" | "blank" | "ref" | "freed"
    filterOutPts    |-> NoPts,     \* pts of the packet in the output slot
    skip            |-> FALSE,
    opened          |-> FALSE,
    swsCtx          |-> "nil",     \* VideoStream: "nil" | "live"
    rgbaFrame       |-> "nil",     \* VideoStream: "nil" | "filled"
    rgbaDims        |-> <<0, 0>>,  \* width, height rgbaFrame is laid out for
    bufSize         |-> 0,         \* VideoStream
    swrCtx          |-> "nil",     \* AudioStream: "nil" | "alloc" | "init"
    buffer          |-> "nil",     \* AudioStream: "nil" | "live" | "freed"
    bufferCap       |-> 0,         \* bytes av_malloc gave to buffer
    bufferSize      |-> 0 ]        \* AudioStream

\* Result of a stream operation: the new stream record, whether an error was
\* returned, the handles the call lost without releasing them (leaked), and
\* the handles it released a second time (dfree).
Ret(st, err, leaked, dfree) ==
  [st |-> st, err |-> err, leaked |-> leaked, dfree |-> dfree]

\* The handle a pointer field loses when it is overwritten.
Lost(p, name) == IF p \in {"nil", "freed"} THEN {} ELSE {name}

\* Releasing memory through a pointer that was already released.
Twice(p, name) == IF p = "freed" THEN {name} ELSE {}

\* The payload an AVPacket struct still references when the struct is
\* deallocated raw (av_free) instead of through av_packet_free.
Payload(p, name) == IF p = "ref" THEN {name} ELSE {}

\* baseStream.Opened
Opened(st) == st.opened

\* baseStream.Filter
Filter(st) == st.filterArgs

\* ---------------------------------------------------------- baseStream.open
BaseOpenSteps == {"alloc_context", "params", "open2", "frame_alloc"}

\* f names the native step that fails in this call, "none" when all succeed.
open(st, f) ==
  LET l1 == Lost(st.codecCtx, "codecCtx")
      l2 == l1 \cup Lost(st.frame, "frame")
  IN  IF f = "alloc_context"
        THEN Ret([st EXCEPT !.codecCtx = "nil", !.buffered = <<>>],
                 TRUE, l1, {})
      ELSE IF f \in {"params", "open2"}
        THEN Ret([st EXCEPT !.codecCtx = "alloc", !.buffered = <<>>],
                 TRUE, l1, {})
      ELSE IF f = "frame_alloc"
        THEN Ret([st EXCEPT !.codecCtx = "open", !.buffered = <<>>,
                            !.frame = "nil"], TRUE, l2, {})
      ELSE Ret([st EXCEPT !.codecCtx = "open", !.buffered = <<>>,
                          !.frame = "live", !.opened = TRUE], FALSE, l2, {})

\* --------------------------------------------------------- baseStream.close
close(st) ==
  LET leaked == Payload(st.filterInPacket, "filterInData")
                  \cup Payload(st.filterOutPacket, "filterOutData")
      dfree  == Twice(st.filterInPacket, "filterInPacket")
                  \cup Twice(st.filterOutPacket, "filterOutPacket")
  IN  Ret([st EXCEPT !.frame = "nil", !.codecCtx = "nil", !.buffered = <<>>,
                     !.filterCtx = "nil",
                     !.filterInPacket = "nil", !.filterOutPacket = "nil",
                 !.filterOutPts = NoPts,
                     !.opened = FALSE],
          FALSE, leaked, dfree)

\* ---------------------------------------------------- baseStream.ApplyFilter
FilterSteps == {"parse", "par_in", "par_out", "init", "alloc_in", "alloc_out"}

ApplyFilter(st, args, f) ==
  LET l1 == Lost(st.filterCtx, "filterCtx")
      l2 == l1 \cup Lost(st.filterInPacket, "filterInPacket")
               \cup Payload(st.filterInPacket, "filterInData")
      l3 == l2 \cup Lost(st.filterOutPacket, "filterOutPacket")
               \cup Payload(st.filterOutPacket, "filterOutData")
  IN  IF f = "parse"
        THEN Ret(st, TRUE, {}, {})
      ELSE IF f \in {"par_in", "par_out", "init"}
        THEN Ret([st EXCEPT !.filterCtx = "alloc"], TRUE, l1, {})
      ELSE IF f = "alloc_in"
        THEN Ret([st EXCEPT !.filterCtx = "init", !.filterInPacket = "nil"],
                 TRUE, l2, {})
      ELSE \* the second allocation is followed by a test of filterInPacket
           Ret([st EXCEPT !.filterCtx = "init", !.filterInPacket = "blank",
                          !.filterOutPacket =
                             IF f = "alloc_out" THEN "nil" ELSE "blank",
                          !.filterOutPts = NoPts,
                          !.filterArgs = args],
               FALSE, l3, {})

\* --------------------------------------------------- baseStream.RemoveFilter
\* RemoveFilter releasing the filter context only: both packets stay.
RemoveFilterKeepsPackets(st) ==
  IF st.filterCtx = "nil"
    THEN Ret(st, TRUE, {}, {})
    ELSE Ret([st EXCEPT !.filterCtx = "nil"], FALSE, {}, {})

RemoveFilter(st) ==
  IF st.filterCtx = "nil"
    THEN Ret(st, TRUE, {}, {})
    ELSE Ret([st EXCEPT !.filterCtx = "nil",
                        !.filterInPacket = "nil", !.filterOutPacket = "nil",
                        !.filterOutPts = NoPts],
             FALSE, {},
             Twice(st.filterInPacket, "filterInPacket")
               \cup Twice(st.filterOutPacket, "filterOutPacket"))

\* ------------------------------------------------- VideoStream.OpenDecode
VideoOpenSteps ==
  BaseOpenSteps \cup {"rgba_alloc", "buffer_size", "buffer_alloc",
                      "fill_arrays", "sws"}

\* OpenDecode returns before its first statement after open() when open()
\* failed; the failure paths after it release the RGBA frame and buffer only.
OpenDecode(st, w, h, f) ==
  LET r  == open(st, f)
      s1 == r.st
      l1 == r.leaked \cup (IF st.rgbaFrame = "filled"
                             THEN {"rgbaFrame", "rgbaBuffer"} ELSE {})
      l2 == l1 \cup Lost(st.swsCtx, "swsCtx")
  IN  IF r.err
        THEN r
      ELSE IF f = "rgba_alloc"
        THEN Ret([s1 EXCEPT !.rgbaFrame = "nil", !.rgbaDims = <<0, 0>>,
                            !.scratch = NoPts],
                 TRUE, l1, {})
      ELSE IF f = "buffer_size"
        THEN Ret([s1 EXCEPT !.rgbaFrame = "nil", !.rgbaDims = <<0, 0>>,
                            !.scratch = NoPts,
                            !.bufSize = -22], TRUE, l1, {})
      ELSE IF f \in {"buffer_alloc", "fill_arrays"}
        THEN Ret([s1 EXCEPT !.rgbaFrame = "nil", !.rgbaDims = <<0, 0>>,
                            !.scratch = NoPts,
                            !.bufSize = ImageBufferSize(w, h)], TRUE, l1, {})
      ELSE IF f = "sws"
        THEN Ret([s1 EXCEPT !.rgbaFrame = "nil", !.rgbaDims = <<0, 0>>,
                            !.swsCtx = "nil", !.scratch = NoPts,
                            !.bufSize = ImageBufferSize(w, h)], TRUE, l2, {})
      ELSE Ret([s1 EXCEPT !.rgbaFrame = "filled", !.rgbaDims = <<w, h>>,
                          !.swsCtx = "live", !.scratch = NoPts,
                          !.bufSize = ImageBufferSize(w, h)], FALSE, l2, {})

\* ------------------------------------------------------- VideoStream.Close
VideoClose(st) ==
  LET r == close(st)
  IN  Ret([r.st EXCEPT !.rgbaFrame = "nil", !.rgbaDims = <<0, 0>>,
                       !.swsCtx = "nil", !.scratch = NoPts],
          FALSE, r.leaked, r.dfree)

\* -------------------------------------------------------- AudioStream.Open
AudioOpenSteps == BaseOpenSteps \cup {"swr_alloc", "swr_init"}

\* swr_alloc_set_opts2 allocates when *ps is NULL and reuses the context
\* otherwise; on failure it frees the context and sets *ps to NULL.
AudioOpen(st, f) ==
  LET r  == open(st, f)
      s1 == r.st
  IN  IF r.err
        THEN r
      ELSE IF f = "swr_alloc"
        THEN Ret([s1 EXCEPT !.swrCtx = "nil"], TRUE, r.leaked, {})
      ELSE IF f = "swr_init"
        THEN Ret([s1 EXCEPT !.swrCtx = "alloc"], TRUE, r.leaked, {})
      ELSE Ret([s1 EXCEPT !.swrCtx = "init", !.buffer = "nil",
                          !.bufferCap = 0, !.scratch = NoPts], FALSE,
               r.leaked \cup Lost(st.buffer, "buffer"), {})

\* ------------------------------------------------------- AudioStream.Close
AudioClose(st) ==
  LET r == close(st)
  IN  Ret([r.st EXCEPT !.buffer = "nil", !.bufferCap = 0,
                       !.swrCtx = "nil", !.scratch = NoPts],
          FALSE, r.leaked, r.dfree \cup Twice(st.buffer, "buffer"))

\* Stream.Open / Stream.Close by stream kind.  VideoStream.Open is
\* OpenDecode with the coded width and height.
StreamOpenSteps(st) ==
  IF st.kind = "video" THEN VideoOpenSteps ELSE AudioOpenSteps

StreamOpen(st, f) ==
  IF st.kind = "video" THEN OpenDecode(st, CodedDims[1], CodedDims[2], f)
                       ELSE AudioOpen(st, f)

StreamClose(st) ==
  IF st.kind = "video" THEN VideoClose(st) ELSE AudioClose(st)

\* ------------------------------------------------------------ media packet
\* Media.packet after Media.OpenDecode: av_packet_alloc gives a blank packet.
BlankPacket ==
  [state |-> "blank", stream_index |-> 0, pts |-> NoPts, filtered |-> FALSE]

\* Media.packet of a new Media and after CloseDecode: the nil pointer.
NilPacket ==
  [state |-> "nil", stream_index |-> 0, pts |-> NoPts, filtered |-> FALSE]

\* What is lost when the pointer to the packet pkt is overwritten: the
\* packet, and the payload it references.
LostPacket(pkt) ==
  IF pkt.state = "nil" THEN {}
  ELSE IF pkt.state = "ref" THEN {"packet", "packetData"}
  ELSE {"packet"}

\* ------------------------------------------------------- Media.OpenDecode
\* f = "packet_alloc": av_packet_alloc returned NULL.
MediaOpenSteps == {"packet_alloc"}

\* m.packet = av_packet_alloc(): the pointer is overwritten whatever it
\* referred to, and stays nil when the allocation fails.
MediaOpenDecode(pkt, f) ==
  IF f = "packet_alloc"
    THEN [pkt |-> NilPacket, err |-> TRUE, leaked |-> LostPacket(pkt)]
    ELSE [pkt |-> BlankPacket, err |-> FALSE, leaked |-> LostPacket(pkt)]

\* ------------------------------------------------------ Media.CloseDecode
\* av_packet_free(&m.packet) releases the payload and the packet and accepts
\* a nil pointer; the result is always nil.
CloseDecode(pkt) == [pkt |-> NilPacket, err |-> FALSE, leaked |-> {}]

\* ------------------------------------------------------------ Media.Close
\* avformat_close_input(&m.ctx) frees the format context with its native
\* sub-streams and codec parameters, and accepts a nil pointer.
MediaClose(c) == "nil"

\* The streams keep the pointers inner and params into the format context
\* (findStreams).  Once the context is freed a read through them is a read
\* of freed memory: the call may go on as if the memory were intact, or
\* crash ("dangling").
Dangling(c) == IF c = "nil" THEN {"dangling"} ELSE {}

\* av_packet_unref: drops the payload reference and resets the fields.
Unref(p) == IF p = "ref" THEN "blank" ELSE p

\* Result of a read: stream record, media packet, the Go return values
\* (val: the returned frame or packet is not equal to nil, more, err),
\* whether the call crashed (nil dereference), and the native step that ended
\* the call.  made is the frame or packet the returned value refers to,
\* <<>> when it refers to none.
Out(st, pkt, val, more, err, panic, at, leaked, dfree) ==
  [st |-> st, pkt |-> pkt, val |-> val, more |-> more, err |-> err,
   panic |-> panic, at |-> at, leaked |-> leaked, dfree |-> dfree,
   pts |-> NoPts, made |-> <<>>]

\* ---------------------------------------------------------- baseStream.read
ReadSteps == {"send_again", "send_fail", "recv_again", "recv_fail"}

\* pts of the packet read submits: the scratch packet, or the packet in the
\* filter output slot when the stream has a filter.
SentPts(st, pkt) ==
  IF st.filterCtx = "nil" THEN pkt.pts
  ELSE IF st.filterOutPacket = "ref" THEN st.filterOutPts
  ELSE NoPts

\* readPacket is a flush packet: nil, or a packet holding no payload (the
\* scratch packet after av_packet_alloc, av_packet_unref or a failed
\* av_read_frame; an empty filter output slot).
Flush(st, pkt) == SentPts(st, pkt) = NoPts

\* The pictures inside the decode context once avcodec_send_packet has
\* accepted the packet; a flush packet adds none.
Submitted(st, pkt) ==
  IF SentPts(st, pkt) = NoPts THEN st.buffered
                              ELSE Append(st.buffered, SentPts(st, pkt))

\* The error branches of read: they clear the skip flag and nothing else.
Failed(st) == [st EXCEPT !.skip = FALSE]

\* f is the native outcome of this call: avcodec_send_packet returning
\* AVERROR(EAGAIN) or another negative status, avcodec_receive_frame
\* returning AVERROR(EAGAIN) or another negative status, or "none".
\* A context that was allocated but never opened rejects every packet.
\* A decoder holding no picture answers AVERROR(EAGAIN); one holding more
\* than MaxDelay pictures outputs the oldest; a failed retrieval drops it.
\* The result's val field is the bool returned by read, its pts field the
\* pts of the picture now in the decode-target frame.
\* A flush packet is the request to drain: avcodec_send_packet accepts it,
\* and from then on the context outputs the pictures it holds, answers
\* AVERROR_EOF (never AVERROR(EAGAIN)) when it holds none, and rejects every
\* later packet.  The success branch dereferences the scratch packet in
\* av_packet_unref.
read(st, pkt, f) ==
  LET q     == Submitted(st, pkt)
      drain == Flush(st, pkt)
      sent  == IF drain THEN [st EXCEPT !.codecCtx = "draining"] ELSE st
  IN  IF st.codecCtx = "nil"
        THEN Out(st, pkt, FALSE, FALSE, FALSE, TRUE, "codecCtx", {}, {})
      ELSE IF st.codecCtx \in {"alloc", "draining"}
                \/ (~drain /\ f \in {"send_again", "send_fail"})
        THEN Out(Failed(st), pkt, FALSE, FALSE, TRUE, FALSE,
                 IF f = "send_again" /\ st.codecCtx = "open"
                   THEN "send_again" ELSE "send_fail", {}, {})
      ELSE IF st.frame = "nil"
        THEN Out(st, pkt, FALSE, FALSE, FALSE, TRUE, "frame", {}, {})
      ELSE IF f = "recv_fail"
        THEN Out([Failed(sent) EXCEPT
                    !.buffered = IF q = <<>> THEN q ELSE Tail(q)],
                 pkt, FALSE, FALSE, TRUE, FALSE, "recv_fail", {}, {})
      ELSE IF drain /\ q = <<>>
        THEN Out(Failed(sent), pkt, FALSE, FALSE, TRUE, FALSE, "recv_eof",
                 {}, {})
      ELSE IF ~drain /\ (q = <<>> \/ (f = "recv_again" /\ Len(q) <= MaxDelay))
        THEN Out([st EXCEPT !.skip = TRUE, !.buffered = q], pkt,
                 TRUE, FALSE, FALSE, FALSE, "recv_again", {}, {})
      ELSE IF pkt.state = "nil"
        THEN Out([sent EXCEPT !.buffered = Tail(q)], pkt, FALSE, FALSE,
                 FALSE, TRUE, "av_packet_unref", {}, {})
      ELSE [Out([sent EXCEPT !.skip = FALSE, !.buffered = Tail(q),
                           !.filterInPacket = Unref(st.filterInPacket),
                           !.filterOutPacket = Unref(st.filterOutPacket),
                           !.filterOutPts = NoPts],
                BlankPacket, TRUE, FALSE, FALSE, FALSE, "none", {}, {})
            EXCEPT !.pts = Head(q)]

\* ------------------------------------------------------------------ frames
\* The skip reported as the end of the data: return nil, false, nil.
SkipReturnsEnd(r) == [r EXCEPT !.val = FALSE, !.more = FALSE]

\* ReadVideoFrame / ReadAudioFrame on ok && s.skip: return nil, true, nil.
SkipReturn(r) == [r EXCEPT !.val = FALSE, !.more = TRUE]

\* C.GoBytes handing out the native buffer itself instead of a copy.
GoBytesIsView(content, n) == [bytes |-> content, view |-> TRUE, len |-> n]

\* C.GoBytes(p, n): a Go byte slice of length n holding a copy of the first
\* n bytes of the native buffer.
GoBytes(content, n) == [bytes |-> content, view |-> FALSE, len |-> n]

\* image.NewRGBA(image.Rect(0, 0, width, height)): Pix holds four bytes for
\* each pixel of the rectangle, rows width pixels long.
NewRGBA(width, height) ==
  [width |-> width, height |-> height, len |-> 4 * width * height]

\* copy(dst, src) copies as many bytes as the shorter slice holds.
Copied(dstLen, srcLen) == IF dstLen < srcLen THEN dstLen ELSE srcLen

\* newVideoFrame: the pixels are copied once more, into the Pix of a new
\* image of the given width and height.  copied is the number of bytes of
\* pix that Pix received.
newVideoFrame(pts, width, height, pix) ==
  LET img == NewRGBA(width, height)
  IN  [pts |-> pts, img |-> img,
       data |-> [bytes |-> pix.bytes, view |-> FALSE, len |-> img.len],
       copied |-> Copied(img.len, pix.len)]

\* newAudioFrame: the frame keeps the byte slice it is given.
newAudioFrame(pts, data) == [pts |-> pts, data |-> data]

\* Frame.Data(): the bytes the frame's slice refers to now.
Data(fr, st) == IF fr.data.view THEN st.scratch ELSE fr.data.bytes

\* ------------------------------------------- baseFrame.PresentationOffset
\* 64-bit integers are sequences of Width digits of base Base, least
\* significant first; exact values are computed on Wide digits.
Base == 256

Width == 8

Wide == 16

\* The digits of the natural number n.
RECURSIVE Digits(_, _)
Digits(n, k) ==
  IF k = 0 THEN <<>> ELSE <<n % Base>> \o Digits(n \div Base, k - 1)

Big(n) == Digits(n, Wide)

\* Carries propagated through a sequence of column sums; the carry out of
\* the last digit is dropped.
RECURSIVE Carried(_, _)
Carried(cols, c) ==
  IF cols = <<>> THEN <<>>
  ELSE <<(Head(cols) + c) % Base>>
         \o Carried(Tail(cols), (Head(cols) + c) \div Base)

\* a * b modulo Base^Wide.
Mul(a, b) ==
  LET RECURSIVE Col(_, _)
      Col(k, i) == IF i > k THEN 0 ELSE a[i] * b[k + 1 - i] + Col(k, i + 1)
  IN  Carried([k \in 1..Wide |-> Col(k, 1)], 0)

\* The low 64 bits of x: what an int64 multiplication keeps.
Wrap64(x) == [i \in 1..Wide |-> IF i <= Width THEN x[i] ELSE 0]

\* The sign bit of the 64-bit pattern x.
Negative64(x) == x[Width] >= Base \div 2

\* 2^64 - x for a 64-bit pattern x # 0: the magnitude of a negative int64.
Magnitude64(x) ==
  Wrap64(Carried([i \in 1..Wide |-> IF i <= Width THEN Base - 1 - x[i] ELSE 0],
                 1))

\* x \div d for 0 < d < 2^22, digit by digit from the most significant.
DivSmall(x, d) ==
  LET RECURSIVE Rem(_)
      Rem(i) == IF i > Wide THEN 0 ELSE (Rem(i + 1) * Base + x[i]) % d
  IN  [i \in 1..Wide |-> (Rem(i + 1) * Base + x[i]) \div d]

\* x < y for digit sequences.
Less(x, y) ==
  \E i \in 1..Wide : x[i] < y[i] /\ \A j \in (i + 1)..Wide : x[j] = y[j]

\* time.Second, in nanoseconds.
Second == 1000000000

\* A time.Duration: sign and magnitude of a count of nanoseconds.
Duration(neg, mag) == [neg |-> neg /\ mag # Big(0), mag |-> mag]

\* pts * tbNum / tbDen seconds, computed without a limit on the size of the
\* intermediate product.
ExactOffset(pts, tb) ==
  Duration(FALSE, DivSmall(Mul(Mul(Big(Second), Big(tb[1])), pts), tb[2]))

\* time.Second * Duration(tbNum) * Duration(pts) / Duration(tbDen) on
\* int64: each product keeps its low 64 bits, the division truncates
\* towards zero.
PresentationOffset(pts, tb) ==
  LET prod == Wrap64(Mul(Wrap64(Mul(Big(Second), Big(tb[1]))), pts))
  IN  IF Negative64(prod)
        THEN Duration(TRUE, DivSmall(Magnitude64(prod), tb[2]))
        ELSE Duration(FALSE, DivSmall(prod, tb[2]))

\* a <= b for durations.
DurationLeq(a, b) ==
  IF a.neg /\ ~b.neg THEN TRUE
  ELSE IF ~a.neg /\ b.neg THEN FALSE
  ELSE IF a.neg THEN ~Less(a.mag, b.mag)
  ELSE ~Less(b.mag, a.mag)

\* Time bases of sub-streams: 25 frames per second, the 90 kHz clock of
\* MPEG transport streams, 29.97 frames per second.
TimeBases == {<<1, 25>>, <<1, 90000>>, <<1001, 30000>>}

\* pts values of frames: the first ticks of a stream and whole multiples of
\* 10^9 ticks.
OffsetPts ==
  {Big(0), Big(1), Big(50)}
    \cup {Mul(Big(k), Big(Second)) : k \in 1..MaxGigaTicks}

\* A duration an int64 count of nanoseconds can hold.
Representable(d) == d.mag[Width] < Base \div 2 /\ \A i \in (Width + 1)..Wide : d.mag[i] = 0

\* ------------------------------------------------ VideoStream.ReadVideoFrame
VideoReadSteps == ReadSteps

ReadVideoFrame(st, pkt, f) ==
  LET r == read(st, pkt, f)
  IN  IF r.panic
        THEN r
      ELSE IF r.err
        THEN [r EXCEPT !.val = FALSE, !.more = FALSE]
      ELSE IF r.val /\ r.st.skip
        THEN SkipReturn(r)
      ELSE IF ~r.val
        THEN [r EXCEPT !.val = FALSE, !.more = FALSE]
      ELSE IF r.st.rgbaFrame = "nil" \/ r.st.swsCtx = "nil"
        THEN [r EXCEPT !.val = FALSE, !.panic = TRUE, !.at = "sws_scale"]
      ELSE [r EXCEPT !.st = [r.st EXCEPT !.scratch = r.pts],
                     !.val = TRUE, !.more = TRUE,
                     !.made = <<newVideoFrame(r.pts, CodedDims[1],
                                              CodedDims[2],
                                              GoBytes(r.pts, r.st.bufSize))>>]

\* ------------------------------------------------ AudioStream.ReadAudioFrame
AudioReadSteps == ReadSteps \cup {"size_fail", "malloc_fail", "convert_fail"}

\* No reuse test: the buffer, once allocated, is kept whatever the frame
\* needs.
OutgrownNever(n, size) == FALSE

\* The reuse test of the output buffer: the frame needs more bytes than the
\* recorded size.
Outgrown(n, size) == n > size

\* n is the size av_samples_get_buffer_size computes for the decoded frame.
ReadAudioFrame(st, pkt, f, n) ==
  LET r     == read(st, pkt, f)
      s1    == r.st
      grow  == Outgrown(n, s1.bufferSize)
      dfree == IF grow THEN Twice(s1.buffer, "buffer") ELSE {}
      b1    == IF grow THEN "nil" ELSE s1.buffer
      alloc == b1 = "nil"
      b2    == IF alloc THEN (IF f = "malloc_fail" THEN "nil" ELSE "live")
                        ELSE b1
      s2    == [s1 EXCEPT !.buffer = b2,
                          !.bufferCap = IF b2 = "nil" THEN 0
                                        ELSE IF alloc THEN n
                                        ELSE s1.bufferCap,
                          !.bufferSize = IF alloc THEN n ELSE s1.bufferSize,
                          !.scratch = IF alloc THEN NoPts ELSE s1.scratch]
  IN  IF r.panic
        THEN r
      ELSE IF r.err
        THEN [r EXCEPT !.val = FALSE, !.more = FALSE]
      ELSE IF r.val /\ r.st.skip
        THEN SkipReturn(r)
      ELSE IF ~r.val
        THEN [r EXCEPT !.val = FALSE, !.more = FALSE]
      ELSE IF f = "size_fail"
        THEN [r EXCEPT !.val = FALSE, !.more = FALSE, !.err = TRUE,
                       !.at = "size_fail"]
      ELSE IF b2 = "nil"
        THEN [r EXCEPT !.st = s2, !.val = FALSE, !.more = FALSE,
                       !.err = TRUE, !.at = "malloc_fail", !.dfree = dfree]
      ELSE IF s2.swrCtx = "nil" \/ b2 = "freed"
        THEN [r EXCEPT !.st = s2, !.val = FALSE, !.panic = TRUE,
                       !.at = "swr_convert", !.dfree = dfree]
      ELSE IF s2.swrCtx = "alloc" \/ f = "convert_fail"
        THEN [r EXCEPT !.st = s2, !.val = FALSE, !.more = FALSE,
                       !.err = TRUE, !.at = "convert_fail", !.dfree = dfree]
      ELSE [r EXCEPT !.st = [s2 EXCEPT !.scratch = r.pts],
                     !.val = TRUE, !.more = TRUE, !.dfree = dfree,
                     !.made = <<newAudioFrame(r.pts, GoBytes(r.pts, n))>>]

StreamReadSteps(st) ==
  IF st.kind = "video" THEN VideoReadSteps ELSE AudioReadSteps

\* The conversion of a *VideoFrame or *AudioFrame to the interface type
\* Frame in `return s.ReadVideoFrame()`: the Frame holds the type of the
\* pointer, so it is not equal to nil even when the pointer is nil.  val is
\* the caller's test frame != nil, made the frame the pointer refers to.
AsFrame(r) == IF r.panic THEN r ELSE [r EXCEPT !.val = TRUE]

\* Stream.ReadFrame by stream kind.
ReadFrame(st, pkt, f, n) ==
  IF st.kind = "video" THEN AsFrame(ReadVideoFrame(st, pkt, f))
                       ELSE AsFrame(ReadAudioFrame(st, pkt, f, n))

\* ------------------------------------------------------------ Media.Streams
\* Streams returning the container's own slice.
StreamsIsAlias(strs) ==
  [alias |-> TRUE, elems |-> [i \in DOMAIN strs |-> strs[i].index]]

\* Streams: a new slice holding the same stream references, in list order.
\* A stream reference is written as the Index() of the stream.
Streams(strs) ==
  [alias |-> FALSE, elems |-> [i \in DOMAIN strs |-> strs[i].index]]

\* --------------------------------------------------------- Media.ReadPacket
\* Native outcomes of one ReadPacket call: av_read_frame succeeding ("none"
\* when every later step succeeds too), returning AVERROR(EAGAIN), AVERROR_EOF
\* or another negative status; then the filter steps av_packet_ref,
\* av_bsf_send_packet and av_bsf_receive_packet returning a negative status.
\* An exhausted source yields no packet and no try-again.
PacketSteps(p) ==
  IF p < MaxPackets
    THEN {"none", "again", "fail", "ref_fail", "bsf_send_fail",
          "bsf_recv_fail", "bsf_crash"}
    ELSE {"eof", "fail"}

\* made is the returned *Packet: <<>> for nil, else a one-element tuple.
\* leaked names the payloads the call lost.
PacketOut(strs, pkt, p, val, more, err, panic, at) ==
  [streams |-> strs, pkt |-> pkt, pos |-> p, val |-> val, more |-> more,
   err |-> err, panic |-> panic, at |-> at, made |-> <<>>, leaked |-> {}]

\* newPacket: a Go value holding copies of the native packet's fields.
newPacket(cPkt) ==
  [streamIndex |-> cPkt.stream_index, pts |-> cPkt.pts,
   filtered |-> cPkt.filtered]

\* av_bsf_receive_packet: the output slot receives the rewritten packet,
\* with the time stamps of the packet pushed into the filter.
FilterOutput(raw) == [raw EXCEPT !.filtered = TRUE]

\* ReadPacket wrapping the raw packet whether or not a filter is active.
outPacketIsRaw(raw, st) == raw

\* The native packet ReadPacket wraps: the scratch packet, or the packet in
\* the filter output slot of a stream with a filter.
outPacket(raw, st) ==
  IF st.filterCtx = "nil" THEN raw ELSE FilterOutput(raw)

\* The branch taken on a negative av_read_frame status, with end of stream
\* reported as an error.
ReadPacketFailedEofIsError(strs, pkt, p, f) ==
  IF f = "again"
    THEN PacketOut(strs, BlankPacket, p, FALSE, TRUE, FALSE, FALSE, f)
    ELSE PacketOut(strs, BlankPacket, p, FALSE, FALSE, TRUE, FALSE, f)

\* The branch taken on a negative av_read_frame status: try-again asks the
\* caller to retry, every other status ends the stream.
ReadPacketFailed(strs, pkt, p, f) ==
  IF f = "again"
    THEN PacketOut(strs, BlankPacket, p, FALSE, TRUE, FALSE, FALSE, f)
    ELSE PacketOut(strs, BlankPacket, p, FALSE, FALSE, FALSE, FALSE, f)

\* Maps the status of av_read_frame and of the filter steps to the returned
\* (packet, more, error).  Pushing a packet into a filter context that was
\* never initialised is undefined: it may fail, crash ("bsf_crash") or pass.
\* av_read_frame dereferences the format context c and the packet: with
\* either nil the call crashes.  av_read_frame, av_packet_ref and
\* av_bsf_receive_packet write over the packet they are given without
\* releasing the payload it still references.
ReadPacket(c, strs, pkt, p, f) ==
  IF c = "nil" \/ pkt.state = "nil"
    THEN PacketOut(strs, pkt, p, FALSE, FALSE, FALSE, TRUE, "av_read_frame")
  ELSE IF f \in {"again", "eof", "fail"}
    THEN [ReadPacketFailed(strs, pkt, p, f)
            EXCEPT !.leaked = Payload(pkt.state, "packetData")]
  ELSE
    LET idx  == SourceStreamIndex(p + 1)
        raw  == [state |-> "ref", stream_index |-> idx,
                 pts |-> PacketPts(p + 1), filtered |-> FALSE]
        st   == strs[idx]
        made == <<newPacket(outPacket(raw, st))>>
        sIn  == [st EXCEPT !.filterInPacket = "ref"]
        sMov == [st EXCEPT !.filterInPacket = "blank"]
        sOut == [sMov EXCEPT !.filterOutPacket = "ref",
                             !.filterOutPts = raw.pts]
        upd(x) == [strs EXCEPT ![idx] = x]
        lRaw == Payload(pkt.state, "packetData")
        lIn  == lRaw \cup Payload(st.filterInPacket, "filterInData")
        lOut == lIn \cup Payload(st.filterOutPacket, "filterOutData")
        res(x, val, more, err, panic, at, lost) ==
          [PacketOut(x, raw, p + 1, val, more, err, panic, at)
             EXCEPT !.leaked = lost]
    IN  IF st.filterCtx = "nil"
          THEN [res(strs, TRUE, TRUE, FALSE, FALSE, "none", lRaw)
                  EXCEPT !.made = made]
        ELSE IF st.filterInPacket \in {"nil", "freed"}
          THEN res(strs, FALSE, FALSE, FALSE, TRUE, "av_packet_ref", lRaw)
        ELSE IF f = "ref_fail"
          THEN res(upd(sMov), FALSE, FALSE, TRUE, FALSE, f, lIn)
        ELSE IF f = "bsf_send_fail"
          THEN res(upd(sIn), FALSE, FALSE, TRUE, FALSE, f, lIn)
        ELSE IF f = "bsf_crash" /\ st.filterCtx = "alloc"
          THEN res(upd(sIn), FALSE, FALSE, FALSE, TRUE, f, lIn)
        ELSE IF st.filterOutPacket \in {"nil", "freed"}
          THEN res(upd(sMov), FALSE, FALSE, FALSE, TRUE,
                   "av_bsf_receive_packet", lIn)
        ELSE IF f = "bsf_recv_fail"
          THEN res(upd(sMov), FALSE, FALSE, TRUE, FALSE, f, lIn)
        ELSE [res(upd(sOut), TRUE, TRUE, FALSE, FALSE, "none", lOut)
                EXCEPT !.made = made]

\* --------------------------------------------------------- baseStream.Rewind
\* baseStream.TimeBase: the time base of the native sub-stream (1/25 s).
TimeBase(st) == <<1, 25>>

\* Durations (nanoseconds) passed to Rewind.
RewindTimes == {0, 1160000000}

\* ---- float64 arithmetic: a positive float64 is m * 2^e with a mantissa m
\* of exactly MantissaBits bits; zero is the mantissa 0.  Results are rounded
\* to the nearest float64, ties to the even mantissa.
MantissaBits == 53

\* Extra binary digits of a quotient computed before it is rounded.
GuardBits == 96

\* Binary digits of one digit of base Base.
DigitBits == 8

RECURSIVE Pow2(_)
Pow2(k) == IF k = 0 THEN 1 ELSE 2 * Pow2(k - 1)

\* 2^k as a digit sequence.
BigPow2(k) ==
  [i \in 1..Wide |->
     IF i = (k \div DigitBits) + 1 THEN Pow2(k % DigitBits) ELSE 0]

Add(x, y) == Carried([i \in 1..Wide |-> x[i] + y[i]], 0)

ShiftLeft(x, k) == Mul(x, BigPow2(k))

ShiftRight(x, k) ==
  DivSmall([i \in 1..Wide |->
              IF i + (k \div DigitBits) <= Wide
                THEN x[i + (k \div DigitBits)] ELSE 0],
           Pow2(k % DigitBits))

\* Number of significant binary digits of x.
BitLen(x) ==
  IF x = Big(0) THEN 0
  ELSE LET top == CHOOSE i \in 1..Wide :
                    x[i] # 0 /\ \A j \in (i + 1)..Wide : x[j] = 0
           b   == CHOOSE c \in 1..DigitBits :
                    x[top] < Pow2(c) /\ x[top] >= Pow2(c - 1)
       IN  DigitBits * (top - 1) + b

\* The value of a digit sequence below 2^31.
ToInt(x) == x[1] + Base * (x[2] + Base * (x[3] + Base * x[4]))

\* The float64 nearest to n * 2^e; inexact says that n is itself the
\* truncation of a longer value.
RoundFloat(n, e, inexact) ==
  LET len == BitLen(n)
      s   == len - MantissaBits
  IN  IF len = 0 THEN [m |-> Big(0), e |-> 0]
      ELSE IF s <= 0 THEN [m |-> ShiftLeft(n, -s), e |-> e + s]
      ELSE LET q    == ShiftRight(n, s)
               h    == ShiftRight(n, s - 1)
               rest == inexact \/ ShiftLeft(h, s - 1) # n
               up   == h[1] % 2 = 1 /\ (rest \/ q[1] % 2 = 1)
               m    == IF up THEN Add(q, Big(1)) ELSE q
           IN  IF BitLen(m) > MantissaBits
                 THEN [m |-> ShiftRight(m, 1), e |-> e + s + 1]
                 ELSE [m |-> m, e |-> e + s]

\* float64(n) for 0 <= n < 2^31.
FloatOfInt(n) == RoundFloat(Big(n), 0, FALSE)

\* n divided by the product of the small divisors ds, and whether the
\* division left a remainder.
RECURSIVE DivAll(_, _)
DivAll(n, ds) ==
  IF ds = <<>> THEN [q |-> n, rem |-> FALSE]
  ELSE LET q == DivSmall(n, Head(ds))
           r == DivAll(q, Tail(ds))
       IN  [q |-> r.q, rem |-> r.rem \/ Mul(q, Big(Head(ds))) # n]

\* float64(a) / float64(d) for integers a, d below 2^31, d given as a
\* sequence of factors below 2^22.
FloatDivInt(a, ds) ==
  LET r == DivAll(ShiftLeft(Big(a), GuardBits), ds)
  IN  RoundFloat(r.q, -GuardBits, r.rem)

FloatMul(a, b) == RoundFloat(Mul(a.m, b.m), a.e + b.e, FALSE)

FloatAdd(a, b) ==
  IF a.m = Big(0) THEN b
  ELSE IF b.m = Big(0) THEN a
  ELSE LET e == IF a.e < b.e THEN a.e ELSE b.e
       IN  RoundFloat(Add(ShiftLeft(a.m, a.e - e), ShiftLeft(b.m, b.e - e)),
                      e, FALSE)

\* int64(x) for a float64 x >= 0 below 2^31: the fraction is dropped.
FloatTrunc(a) ==
  IF a.e >= 0 THEN ToInt(ShiftLeft(a.m, a.e)) ELSE ToInt(ShiftRight(a.m, -a.e))

\* The factors of 10^9 used to divide by it.
Giga == <<31250, 32000>>

\* time.Duration.Seconds: float64(sec) + float64(nsec)/1e9.
Seconds(t) ==
  FloatAdd(FloatOfInt(t \div Second), FloatDivInt(t % Second, Giga))

\* int64(t.Seconds() * (float64(den) / float64(num))).
FloatTicks(t, tb) ==
  FloatTrunc(FloatMul(Seconds(t), FloatDivInt(tb[2], <<tb[1]>>)))

\* t * den / num seconds, truncated to a whole tick, computed on integers.
ExactTicks(t, tb) ==
  ToInt(DivAll(Mul(Big(t), Big(tb[2])), Giga \o <<tb[1]>>).q)

\* The ticks of the durations passed to Rewind, for each stream.
RewindTable ==
  [i \in StreamIds |->
     [t \in RewindTimes |-> FloatTicks(t, TimeBase(NewStream(i)))]]

RewindTicks(st, t) == RewindTable[st.index][t]

\* rewindPosition: the tick count as the C integer av_seek_frame takes.
rewindPosition(dur) == dur

\* A forward seek: in front of the first packet of that sub-stream at or
\* after the tick, the end of the source when there is none.
SeekPositionForward(idx, tick) ==
  LET c == {i \in 1..MaxPackets :
              SourceStreamIndex(i) = idx /\ PacketPts(i) >= tick}
  IN  IF c = {} THEN MaxPackets
      ELSE (CHOOSE i \in c : \A j \in c : i <= j) - 1

\* av_seek_frame(ctx, index, tick, FRAME|BACKWARD): the read cursor moves in
\* front of the last packet of that sub-stream at or before the tick.
SeekPosition(idx, tick) ==
  LET c == {i \in 1..MaxPackets :
              SourceStreamIndex(i) = idx /\ PacketPts(i) <= tick}
  IN  IF c = {} THEN 0
      ELSE (CHOOSE i \in c : \A j \in c : j <= i) - 1

\* fail: av_seek_frame returned a negative status.  seek is the request
\* made to av_seek_frame, r its return value.  av_seek_frame dereferences
\* the format context c: with a nil context the call crashes.
Rewind(st, c, p, t, fail) ==
  LET seek == [index |-> st.index,
               tick  |-> rewindPosition(RewindTicks(st, t)),
               flags |-> {"FRAME", "BACKWARD"}]
  IN  IF c = "nil"
        THEN [pos |-> p, err |-> FALSE, panic |-> TRUE, seek |-> seek,
              r |-> -1]
      ELSE IF fail
        THEN [pos |-> p, err |-> TRUE, panic |-> FALSE, seek |-> seek,
              r |-> -1]
        ELSE [pos |-> SeekPosition(seek.index, seek.tick), err |-> FALSE,
              panic |-> FALSE, seek |-> seek, r |-> 0]

\* ===================================================================== state
VARIABLES
  ctx,       \* Media.ctx, the format context: "open" | "nil"
  streams,   \* Media.streams: index -> stream record
  packet,    \* Media.packet, the container's scratch packet
  pos,       \* read cursor of the container: packets consumed so far
  last,      \* the last call: operation, native outcome, returned values
  session,   \* index of the stream this decode session operates on
  caller     \* what the caller keeps: a frame, a slice of streams

vars == <<ctx, streams, packet, pos, last, session, caller>>

Call(op, at, val, more, err, panic, leaked, dfree) ==
  [op |-> op, at |-> at, val |-> val, more |-> more,
   err |-> err, panic |-> panic, leaked |-> leaked, dfree |-> dfree,
   obj |-> <<>>]

\* NewMedia: the source opened, its streams discovered, none open, no scratch
\* packet yet, the cursor at the start of the source.
Init ==
  /\ ctx = "open"
  /\ streams = [i \in StreamIds |-> NewStream(i)]
  /\ packet = NilPacket
  /\ pos = 0
  /\ last = Call("NewMedia", "none", FALSE, FALSE, FALSE, FALSE, {}, {})
  /\ session \in StreamIds
  /\ caller = [frame |-> <<>>, slice |-> <<>>]

\* NewMedia followed by a successful Media.OpenDecode: the scratch packet is
\* allocated.
InitDecode ==
  /\ ctx = "open"
  /\ streams = [i \in StreamIds |-> NewStream(i)]
  /\ packet = MediaOpenDecode(NilPacket, "none").pkt
  /\ pos = 0
  /\ last = Call("MediaOpenDecode", "none", FALSE, FALSE, FALSE, FALSE,
                 {}, {})
  /\ session \in StreamIds
  /\ caller = [frame |-> <<>>, slice |-> <<>>]

\* A crash (nil dereference in Go or in the native library) ends the process.
Running == ~last.panic

\* The call op crashed on a read of the freed format context.
Crashed(op) == Call(op, "dangling", FALSE, FALSE, FALSE, TRUE, {}, {})

CallMediaOpenDecode ==
  /\ Running
  /\ \E f \in MediaOpenSteps \cup {"none"} :
       \E r \in {MediaOpenDecode(packet, f)} :
           /\ packet' = r.pkt
           /\ last' = Call("MediaOpenDecode", f, FALSE, FALSE, r.err, FALSE,
                           r.leaked, {})
  /\ UNCHANGED <<ctx, streams, pos, session, caller>>

CallCloseDecode ==
  /\ Running
  /\ \E r \in {CloseDecode(packet)} :
         /\ packet' = r.pkt
         /\ last' = Call("CloseDecode", "none", FALSE, FALSE, r.err, FALSE,
                         r.leaked, {})
  /\ UNCHANGED <<ctx, streams, pos, session, caller>>

CallMediaClose ==
  /\ Running
  /\ ctx' = MediaClose(ctx)
  /\ last' = Call("MediaClose", "none", FALSE, FALSE, FALSE, FALSE, {}, {})
  /\ UNCHANGED <<streams, packet, pos, session, caller>>

CallOpen(i) ==
  /\ Running
  /\ \E f \in StreamOpenSteps(streams[i]) \cup {"none"} \cup Dangling(ctx) :
       \E r \in {StreamOpen(streams[i], f)} :
           IF f = "dangling"
             THEN streams' = streams /\ last' = Crashed("Open")
             ELSE /\ streams' = [streams EXCEPT ![i] = r.st]
                  /\ last' = Call("Open", f, FALSE, FALSE, r.err, FALSE,
                                  r.leaked, r.dfree)
  /\ UNCHANGED <<packet, pos, session, caller, ctx>>

CallOpenDecode(i) ==
  /\ Running
  /\ streams[i].kind = "video"
  /\ \E d \in Dims, f \in VideoOpenSteps \cup {"none"} \cup Dangling(ctx) :
       \E r \in {OpenDecode(streams[i], d[1], d[2], f)} :
           IF f = "dangling"
             THEN streams' = streams /\ last' = Crashed("Open")
             ELSE /\ streams' = [streams EXCEPT ![i] = r.st]
                  /\ last' = Call("Open", f, FALSE, FALSE, r.err, FALSE,
                                  r.leaked, r.dfree)
  /\ UNCHANGED <<packet, pos, session, caller, ctx>>

CallClose(i) ==
  /\ Running
  /\ \E r \in {StreamClose(streams[i])} :
         /\ streams' = [streams EXCEPT ![i] = r.st]
         /\ last' = Call("Close", "none", FALSE, FALSE, r.err, FALSE,
                         r.leaked, r.dfree)
  /\ UNCHANGED <<packet, pos, session, caller, ctx>>

CallApplyFilter(i) ==
  /\ Running
  /\ \E args \in FilterStrings,
        f \in FilterSteps \cup {"none"} \cup Dangling(ctx) :
       \E r \in {ApplyFilter(streams[i], args, f)} :
           IF f = "dangling"
             THEN streams' = streams /\ last' = Crashed("ApplyFilter")
             ELSE /\ streams' = [streams EXCEPT ![i] = r.st]
                  /\ last' = Call("ApplyFilter", f, FALSE, FALSE, r.err,
                                  FALSE, r.leaked, r.dfree)
  /\ UNCHANGED <<packet, pos, session, caller, ctx>>

CallRemoveFilter(i) ==
  /\ Running
  /\ \E r \in {RemoveFilter(streams[i])} :
         /\ streams' = [streams EXCEPT ![i] = r.st]
         /\ last' = Call("RemoveFilter", "none", FALSE, FALSE, r.err,
                         FALSE, r.leaked, r.dfree)
  /\ UNCHANGED <<packet, pos, session, caller, ctx>>

CallReadPacket ==
  /\ Running
  /\ \E f \in PacketSteps(pos) :
       \E r \in {ReadPacket(ctx, streams, packet, pos, f)} :
           /\ streams' = r.streams
           /\ packet' = r.pkt
           /\ pos' = r.pos
           /\ last' = [Call("ReadPacket", r.at, r.val, r.more, r.err,
                            r.panic, r.leaked, {}) EXCEPT !.obj = r.made]
  /\ UNCHANGED <<session, caller, ctx>>

CallReadFrame(i) ==
  /\ Running
  /\ \E f \in StreamReadSteps(streams[i]) \cup {"none"},
        n \in 1..MaxFrameSize :
       \E r \in {ReadFrame(streams[i], packet, f, n)} :
           /\ streams' = [streams EXCEPT ![i] = r.st]
           /\ packet' = r.pkt
           /\ last' = [Call("ReadFrame", r.at, r.val, r.more, r.err,
                            r.panic, r.leaked, r.dfree)
                          EXCEPT !.obj = r.made]
  /\ UNCHANGED <<pos, session, caller, ctx>>

CallRewind(i) ==
  /\ Running
  /\ \E t \in RewindTimes, fail \in BOOLEAN :
       \E r \in {Rewind(streams[i], ctx, pos, t, fail)} :
           /\ pos' = r.pos
           /\ last' = [Call("Rewind", "none", FALSE, FALSE, r.err, r.panic,
                            {}, {})
                          EXCEPT !.obj = <<[t |-> t, seek |-> r.seek,
                                            r |-> r.r]>>]
  /\ UNCHANGED <<streams, packet, session, caller, ctx>>

\* The caller keeps the frame the last ReadFrame returned.
CallKeepFrame ==
  /\ Running
  /\ last.op = "ReadFrame"
  /\ last.obj # <<>>
  /\ caller.frame # last.obj
  /\ caller' = [caller EXCEPT !.frame = last.obj]
  /\ UNCHANGED <<streams, packet, pos, last, session, ctx>>

\* The caller asks the frame it was handed for its presentation offset.
CallPresentationOffset ==
  /\ last.op = "NewFrame"
  /\ LET fr == last.obj[1]
     IN  last' = [Call("PresentationOffset", "none", TRUE, FALSE, FALSE,
                       FALSE, {}, {})
                    EXCEPT !.obj = <<[pts |-> fr.pts, tb |-> fr.tb,
                                      offset |->
                                        PresentationOffset(fr.pts, fr.tb)]>>]
  /\ UNCHANGED <<streams, packet, pos, session, caller, ctx>>

\* The caller keeps the frame with its offset and is handed a later frame
\* of the same stream.
CallLaterFrame ==
  /\ last.op = "PresentationOffset"
  /\ caller.frame = <<>>
  /\ \E p \in OffsetPts :
       /\ ~Less(p, last.obj[1].pts)
       /\ last' = [Call("NewFrame", "none", TRUE, FALSE, FALSE, FALSE, {}, {})
                     EXCEPT !.obj = <<[pts |-> p, tb |-> last.obj[1].tb]>>]
  /\ caller' = [caller EXCEPT !.frame = last.obj]
  /\ UNCHANGED <<streams, packet, pos, session, ctx>>

\* The caller asks for the list of streams and keeps the slice.
CallStreams ==
  /\ Running
  /\ caller.slice # <<Streams(streams)>>
  /\ caller' = [caller EXCEPT !.slice = <<Streams(streams)>>]
  /\ last' = Call("Streams", "none", TRUE, FALSE, FALSE, FALSE, {}, {})
  /\ UNCHANGED <<streams, packet, pos, session, ctx>>

\* The caller exchanges the first two elements of the slice it was given;
\* the container's list changes with it only if the slice is that list.
CallSwapSlice ==
  /\ Running
  /\ caller.slice # <<>>
  /\ LET sl == caller.slice[1]
         sw(f) == [i \in DOMAIN f |-> IF i = 0 THEN f[1]
                                     ELSE IF i = 1 THEN f[0] ELSE f[i]]
     IN  /\ caller' = [caller EXCEPT !.slice = <<[sl EXCEPT !.elems = sw(@)]>>]
         /\ streams' = IF sl.alias THEN sw(streams) ELSE streams
  /\ UNCHANGED <<packet, pos, last, session, ctx>>

\* The caller's calls, in any order, on the container and on the stream of
\* the session.
Next ==
  \/ CallMediaOpenDecode
  \/ CallCloseDecode
  \/ CallMediaClose
  \/ CallOpen(session)
  \/ CallOpenDecode(session)
  \/ CallClose(session)
  \/ CallApplyFilter(session)
  \/ CallRemoveFilter(session)
  \/ CallReadPacket
  \/ CallReadFrame(session)
  \/ CallRewind(session)

\* The complete interface.  The two sessions below restrict the caller to
\* the calls of one concern each.
Spec == Init /\ [][Next]_vars

\* A decode session on a stream without a bitstream filter, between the
\* container's OpenDecode and its CloseDecode.
NextDecode ==
  \/ CallOpen(session)
  \/ CallOpenDecode(session)
  \/ CallClose(session)
  \/ CallReadPacket
  \/ CallReadFrame(session)
  \/ CallRewind(session)

SpecDecode == InitDecode /\ [][NextDecode]_vars

\* The bitstream filter lifecycle of a stream, with the packets ReadPacket
\* routes through the filter and the release of the filter by Close, over
\* the whole life of the container.
NextFilter ==
  \/ CallMediaOpenDecode
  \/ CallCloseDecode
  \/ CallMediaClose
  \/ CallApplyFilter(session)
  \/ CallRemoveFilter(session)
  \/ CallClose(session)
  \/ CallReadPacket

SpecFilter == Init /\ [][NextFilter]_vars

\* The state after a successful Open of the session's stream.
InitOpened ==
  /\ session \in StreamIds
  /\ streams = [i \in StreamIds |->
                  IF i = session THEN StreamOpen(NewStream(i), "none").st
                                 ELSE NewStream(i)]
  /\ ctx = "open"
  /\ packet = BlankPacket
  /\ pos = 0
  /\ last = Call("Open", "none", FALSE, FALSE, FALSE, FALSE, {}, {})
  /\ caller = [frame |-> <<>>, slice |-> <<>>]

\* The life of the frames of an opened stream: the caller reads packets and
\* frames, keeps some of the frames, rewinds, and closes the stream.
NextFrames ==
  \/ CallReadPacket
  \/ CallReadFrame(session)
  \/ CallKeepFrame
  \/ CallRewind(session)
  \/ CallClose(session)

SpecFrames == InitOpened /\ [][NextFrames]_vars

\* Sessions of a stream that is given a bitstream filter: the stream is
\* opened and closed any number of times while packets are read, routed
\* through the filter and decoded.
NextSession ==
  \/ CallOpen(session)
  \/ CallApplyFilter(session)
  \/ CallReadPacket
  \/ CallReadFrame(session)
  \/ CallClose(session)

SpecSession == InitOpened /\ [][NextSession]_vars

\* A frame of a stream with one of the time bases, handed to the caller.
InitOffset ==
  /\ session \in StreamIds
  /\ streams = [i \in StreamIds |-> NewStream(i)]
  /\ ctx = "open"
  /\ packet = BlankPacket
  /\ pos = 0
  /\ \E p \in OffsetPts, tb \in TimeBases :
       last = [Call("NewFrame", "none", TRUE, FALSE, FALSE, FALSE, {}, {})
                 EXCEPT !.obj = <<[pts |-> p, tb |-> tb]>>]
  /\ caller = [frame |-> <<>>, slice |-> <<>>]

\* Presentation offsets of the frames of one stream.
NextOffset ==
  \/ CallPresentationOffset
  \/ CallLaterFrame

SpecOffset == InitOffset /\ [][NextOffset]_vars

\* The list of streams over the whole life of the container, while the
\* caller reads packets, rewinds, opens and closes a stream, and rearranges
\* the slice Streams() gave it.
NextStreams ==
  \/ CallMediaOpenDecode
  \/ CallCloseDecode
  \/ CallMediaClose
  \/ CallStreams
  \/ CallSwapSlice
  \/ CallReadPacket
  \/ CallRewind(session)
  \/ CallOpen(session)
  \/ CallClose(session)

SpecStreams == Init /\ [][NextStreams]_vars

\* The life of the container around a decode session: the scratch packet is
\* allocated and freed and the source closed while the caller reads packets
\* and frames of a stream and rewinds it.
NextMedia ==
  \/ CallMediaOpenDecode
  \/ CallCloseDecode
  \/ CallMediaClose
  \/ CallOpen(session)
  \/ CallReadPacket
  \/ CallReadFrame(session)
  \/ CallRewind(session)

SpecMedia == Init /\ [][NextMedia]_vars

\* The state after a successful Open of every stream of the container.
InitAllOpened ==
  /\ session \in StreamIds
  /\ streams = [i \in StreamIds |-> StreamOpen(NewStream(i), "none").st]
  /\ ctx = "open"
  /\ packet = BlankPacket
  /\ pos = 0
  /\ last = Call("Open", "none", FALSE, FALSE, FALSE, FALSE, {}, {})
  /\ caller = [frame |-> <<>>, slice |-> <<>>]

\* The playback loop hands the packet ReadPacket just returned to the stream
\* it belongs to.  Every native call succeeds; the decoder may hold the
\* picture back and ask for more input.
CallPlayFrame(i) ==
  /\ Running
  /\ last.op = "ReadPacket"
  /\ last.val
  /\ packet.stream_index = i
  /\ \E f \in {"none", "recv_again"} :
       \E r \in {ReadFrame(streams[i], packet, f, MaxFrameSize)} :
           /\ streams' = [streams EXCEPT ![i] = r.st]
           /\ packet' = r.pkt
           /\ last' = [Call("ReadFrame", r.at, r.val, r.more, r.err,
                            r.panic, r.leaked, r.dfree)
                          EXCEPT !.obj = r.made]
  /\ UNCHANGED <<pos, session, caller, ctx>>

\* Playback of every stream: the caller reads packets, hands each to the
\* stream it belongs to, and rewinds the stream of the session.
NextPlayback ==
  \/ CallReadPacket
  \/ \E i \in StreamIds : CallPlayFrame(i)
  \/ CallRewind(session)

SpecPlayback == InitAllOpened /\ [][NextPlayback]_vars

\* The container with the audio stream as the stream of the session.
InitAudio ==
  /\ InitDecode
  /\ streams[session].kind = "audio"

\* Sessions of an audio stream: it is opened, read and closed, in any order
\* and any number of times.
NextAudio ==
  \/ CallOpen(session)
  \/ CallClose(session)
  \/ CallReadPacket
  \/ CallReadFrame(session)

SpecAudio == InitAudio /\ [][NextAudio]_vars

\* ==================================================================== claims
\* The container is in a decode session: the source is open and
\* Media.OpenDecode has allocated the scratch packet.
Decoding == ctx = "open" /\ packet.state # "nil"

\* The stream of the session.
St == streams[session]

\* No decode context, no decode-target frame, no conversion resources.
FullyClosed(st) ==
  /\ ~Opened(st)
  /\ st.codecCtx = "nil"
  /\ st.frame = "nil"
  /\ IF st.kind = "video"
       THEN st.swsCtx = "nil" /\ st.rgbaFrame = "nil"
       ELSE st.swrCtx = "nil" /\ st.buffer = "nil"

\* Decode context opened, decode-target frame and conversion context
\* allocated (the audio output buffer is allocated by the first frame).
FullyOpen(st) ==
  /\ Opened(st)
  /\ st.codecCtx = "open"
  /\ st.frame = "live"
  /\ IF st.kind = "video"
       THEN st.swsCtx = "live" /\ st.rgbaFrame = "filled"
       ELSE st.swrCtx = "init"

NoFilterResources(st) ==
  /\ st.filterCtx = "nil"
  /\ st.filterInPacket = "nil"
  /\ st.filterOutPacket = "nil"

\* The Go return values (value, more, error) of the last call.
Returned(val, more, err) ==
  /\ ~last.panic
  /\ last.val = val
  /\ last.more = more
  /\ last.err = err

\* C1: a ReadFrame call in which the decoder reports that it needs more
\* input (avcodec_receive_frame returns try-again) returns (nil, true, nil):
\* a frame equal to nil, more available, no error; no other outcome returns
\* that, so that the caller tells the skip from a produced frame
\* (frame, true, nil) and from a failure (nil, false, err).
C1_NeedsMoreInputIsSkip ==
  last.op = "ReadFrame" /\ ~last.panic =>
    /\ last.at = "recv_again" => Returned(FALSE, TRUE, FALSE)
    /\ Returned(FALSE, TRUE, FALSE) => last.at = "recv_again"

\* C2: a ReadFrame call in which the submission step (avcodec_send_packet)
\* gets try-again returns (nil, true, nil), a skip and not an error.
C2_SubmitAgainIsSkip ==
  last.op = "ReadFrame" /\ last.at = "send_again" =>
    Returned(FALSE, TRUE, FALSE)

\* C3: ReadPacket maps try-again to (nil, true, nil), end of stream to
\* (nil, false, nil), any other negative status to (nil, false, err) and a
\* successful read to (packet, true, nil).
C3_ReadPacketMapping ==
  last.op = "ReadPacket" =>
    /\ last.at = "again" => Returned(FALSE, TRUE, FALSE)
    /\ last.at = "eof" => Returned(FALSE, FALSE, FALSE)
    /\ last.at = "fail" => Returned(FALSE, FALSE, TRUE)
    /\ last.at = "none" => Returned(TRUE, TRUE, FALSE)

\* C4: once the source is exhausted it stays exhausted until a Rewind, and
\* every ReadPacket call made meanwhile in a decode session of the container
\* returns (nil, false, nil).
C4_ExhaustedStaysExhausted ==
  [][ pos = MaxPackets /\ last'.op # "Rewind" /\ Decoding =>
        /\ pos' = MaxPackets
        /\ last'.op = "ReadPacket" =>
             (~last'.panic /\ ~last'.val /\ ~last'.more /\ ~last'.err) ]_vars

C4_Witness ==
  /\ last.op = "ReadPacket"
  /\ last.at = "eof"
  /\ pos = MaxPackets
  /\ Returned(FALSE, FALSE, FALSE)

\* C5: between calls a stream is fully closed or fully open, never partly
\* open.
C5_ClosedOrOpen ==
  Running => FullyClosed(St) \/ FullyOpen(St)

\* C6: an Open / OpenDecode call that returns an error leaves the stream
\* closed, holding none of the resources the call allocated.
C6_FailedOpenLeavesClosed ==
  last.op = "Open" /\ last.err => FullyClosed(St) /\ last.leaked = {}

\* C7: Close of a stream releases its decode and conversion resources
\* without losing or re-releasing a handle or a payload, whatever the stream
\* held; Open of the closed stream succeeds when the native allocations
\* succeed and loses no handle; ReadFrame on the open stream, in a decode
\* session of the container, does not crash, loses no handle and leaves the
\* stream fully open.
C7_CloseThenOpen ==
  [][ /\ last'.op = "Close" =>
           /\ FullyClosed(St')
           /\ ~last'.err
           /\ last'.leaked = {}
           /\ last'.dfree = {}
      /\ FullyClosed(St) /\ last'.op = "Open" /\ last'.at = "none" =>
           /\ FullyOpen(St')
           /\ ~last'.err
           /\ last'.leaked = {}
      /\ FullyOpen(St) /\ last'.op = "ReadFrame" /\ Decoding =>
           /\ FullyOpen(St')
           /\ ~last'.panic
           /\ last'.leaked = {} ]_vars

\* C8: after every RemoveFilter the stream holds no filter context and no
\* filter packet, and the call lost no handle and released none twice; an
\* ApplyFilter on a stream without filter resources loses no handle either.
C8_FilterCycle ==
  [][ /\ last'.op = "RemoveFilter" =>
           /\ NoFilterResources(St')
           /\ last'.leaked = {}
           /\ last'.dfree = {}
      /\ NoFilterResources(St) /\ last'.op = "ApplyFilter" =>
           /\ last'.leaked = {}
           /\ last'.dfree = {} ]_vars

\* A successful RemoveFilter after a successful ApplyFilter.
C8_Witness ==
  /\ last.op = "RemoveFilter"
  /\ ~last.err
  /\ St.filterArgs # ""
  /\ NoFilterResources(St)

\* C9: RemoveFilter fails when no filter is active, and Filter() is the empty
\* string whenever the stream holds no filter, in particular after a
\* successful RemoveFilter and after Close.
C9_FilterEmptyWhenNone ==
  /\ last.op = "RemoveFilter" /\ last.err => St.filterCtx = "nil"
  /\ St.filterCtx = "nil" => Filter(St) = ""

\* C10: ApplyFilter returns nil only if the filter context is initialised and
\* both filter packets are allocated.
C10_ApplyFilterNilOnlyIfComplete ==
  last.op = "ApplyFilter" /\ ~last.err =>
    /\ St.filterCtx = "init"
    /\ St.filterInPacket # "nil"
    /\ St.filterOutPacket # "nil"

\* C11: a ReadPacket call that reads a packet and does not crash returns,
\* when the stream owning the packet has no filter, (packet, true, nil) with
\* the packet built from the raw packet, and touches no filter packet; when
\* that stream has a filter, it returns (nil, false, err) if the reference,
\* the push or the pull failed, and otherwise (packet, true, nil) with the
\* packet built from the filter output, the input slot handed to the filter
\* and the output slot holding the rewritten packet.
C11_FilterRouting ==
  [][(last'.op = "ReadPacket" /\ ~last'.panic
        /\ last'.at \notin {"again", "eof", "fail"}) =>
       LET idx   == SourceStreamIndex(pos + 1)
           built == [streamIndex |-> idx, pts |-> PacketPts(pos + 1),
                     filtered |-> streams[idx].filterCtx # "nil"]
       IN  IF streams[idx].filterCtx = "nil"
             THEN /\ last'.val /\ last'.more /\ ~last'.err
                  /\ last'.obj = <<built>>
                  /\ streams' = streams
             ELSE \/ /\ last'.at \in {"ref_fail", "bsf_send_fail",
                                      "bsf_recv_fail"}
                     /\ ~last'.val /\ ~last'.more /\ last'.err
                     /\ last'.obj = <<>>
                  \/ /\ last'.at = "none"
                     /\ last'.val /\ last'.more /\ ~last'.err
                     /\ last'.obj = <<built>>
                     /\ streams'[idx].filterInPacket = "blank"
                     /\ streams'[idx].filterOutPacket = "ref"]_vars

C11_Witness ==
  /\ last.op = "ReadPacket"
  /\ last.val
  /\ last.obj # <<>>
  /\ last.obj[1].filtered
  /\ streams[last.obj[1].streamIndex].filterOutPacket = "ref"

\* C12: in a decode session of the container, a ReadFrame that fails with a
\* decode error (the submission or the retrieval returned an error status)
\* changes neither Opened() nor the decode context, the decode-target frame
\* or the conversion resources; on a fully open stream a ReadFrame given the
\* next packet then produces a frame.
C12_DecodeErrorKeepsOpen ==
  [][(last'.op = "ReadFrame" /\ last'.err /\ Decoding
        /\ last'.at \in {"send_again", "send_fail", "recv_fail",
                         "recv_eof"}) =>
       /\ Opened(St') = Opened(St)
       /\ St'.codecCtx = St.codecCtx
       /\ St'.frame = St.frame
       /\ St'.swsCtx = St.swsCtx
       /\ St'.rgbaFrame = St.rgbaFrame
       /\ St'.bufSize = St.bufSize
       /\ St'.swrCtx = St.swrCtx
       /\ St'.buffer = St.buffer
       /\ St'.bufferSize = St.bufferSize
       /\ FullyOpen(St) =>
            LET nxt == [state |-> "ref", stream_index |-> session,
                        pts |-> 0, filtered |-> FALSE]
                r   == ReadFrame(St', nxt, "none", MaxFrameSize)
            IN  r.val /\ r.more /\ ~r.err /\ ~r.panic /\ r.made # <<>>
    ]_vars

\* C13: the bytes Data() returns for a frame the caller keeps are those of
\* the picture the frame was built from, and no ReadPacket, ReadFrame, Rewind
\* or Close changes them, whatever happens to the stream's output buffer.
C13_FrameOwnsData ==
  [][caller.frame # <<>> =>
       /\ Data(caller.frame[1], St) = caller.frame[1].pts
       /\ caller'.frame = caller.frame =>
            Data(caller.frame[1], St') = Data(caller.frame[1], St)]_vars

\* A kept frame whose stream has since written a later picture into its
\* output buffer, or has released the buffer.
C13_Witness ==
  /\ caller.frame # <<>>
  /\ St.scratch # caller.frame[1].pts
  /\ last.op \in {"ReadFrame", "Close"}

\* C14: PresentationOffset returns pts * num / den seconds, truncated to a
\* nanosecond, whenever that value fits a 64-bit count of nanoseconds.
C14_OffsetExact ==
  (last.op = "PresentationOffset"
     /\ Representable(ExactOffset(last.obj[1].pts, last.obj[1].tb)))
    => last.obj[1].offset = ExactOffset(last.obj[1].pts, last.obj[1].tb)

\* C15: of two frames of one stream, the one with the larger pts never has
\* the smaller presentation offset.
C15_OffsetMonotone ==
  (last.op = "PresentationOffset" /\ caller.frame # <<>>)
    => DurationLeq(caller.frame[1].offset, last.obj[1].offset)

\* C16: within one session no ReadAudioFrame call lowers the
\* recorded size of the output buffer.
C16_SizeNeverDecreases ==
  [][(last'.op = "ReadFrame" /\ St.kind = "audio") =>
       St'.bufferSize >= St.bufferSize]_vars

\* C17: the list of streams holds one stream per native sub-stream, the
\* stream at list index i being the stream of kind and Index() i, and each
\* Streams() call returns the streams in that order, whatever ReadPacket,
\* Rewind, Open, Close or the caller's changes to a returned slice did.
C17_StreamsListFixed ==
  /\ DOMAIN streams = StreamIds
  /\ \A i \in StreamIds :
       /\ streams[i].index = i
       /\ streams[i].kind = StreamKind(i)
       /\ Streams(streams).elems[i] = i

\* The caller has reversed the slice it was given and then used the
\* container.
C17_Witness ==
  /\ caller.slice # <<>>
  /\ caller.slice[1].elems[0] = 1
  /\ last.op \in {"ReadPacket", "Rewind", "Open", "Close"}

\* C18: a Rewind(d) call makes one backward keyframe seek for the index of
\* its stream at the tick d * den / num (d in seconds) truncated to an
\* integer, and returns an error exactly when the seek returned a negative
\* status.
C18_RewindSeeksExactTick ==
  last.op = "Rewind" =>
    /\ Len(last.obj) = 1
    /\ last.obj[1].seek.index = St.index
    /\ last.obj[1].seek.flags = {"FRAME", "BACKWARD"}
    /\ last.obj[1].seek.tick = ExactTicks(last.obj[1].t, TimeBase(St))
    /\ last.err <=> last.obj[1].r < 0

\* The caller's decode loop from the present state, every native call
\* succeeding: ReadPacket until a packet of stream i arrives, ReadFrame on
\* it, again while ReadFrame asks for more input.  The result is the first
\* frame the loop obtains, <<>> when the source ends before one.
RECURSIVE C19_FirstFrame(_, _, _, _, _)
C19_FirstFrame(strs, pkt, p, i, k) ==
  IF k = 0 THEN <<>>
  ELSE
    LET rp == ReadPacket(ctx, strs, pkt, p,
                         IF p < MaxPackets THEN "none" ELSE "eof")
    IN  IF ~rp.val THEN <<>>
        ELSE IF rp.pkt.stream_index # i
          THEN C19_FirstFrame(rp.streams, rp.pkt, rp.pos, i, k - 1)
        ELSE
          LET rf == ReadFrame(rp.streams[i], rp.pkt, "none", 1)
          IN  IF rf.made # <<>> THEN rf.made
              ELSE IF rf.err \/ rf.panic \/ ~rf.more THEN <<>>
              ELSE C19_FirstFrame([rp.streams EXCEPT ![i] = rf.st],
                                  rf.pkt, rp.pos, i, k - 1)

\* pts of the first packet of stream i served from read position p.
C19_FirstServed(p, i) ==
  LET c == {j \in (p + 1)..MaxPackets : SourceStreamIndex(j) = i}
  IN  IF c = {} THEN NoPts
      ELSE PacketPts(CHOOSE j \in c : \A h \in c : j <= h)

\* Consecutive frames of a stream are one tick of its time base apart.
C19_FrameDuration == PresentationOffset(Big(1), TimeBase(St))

\* C19: after a successful Rewind(0) on a fully open stream, the first frame
\* the ReadPacket/ReadFrame loop obtains has a presentation offset between
\* zero and one frame duration, and it is the picture of the first packet
\* served after the rewind, not one submitted to the decoder before it.
C19_FirstFrameAfterRewind ==
  (/\ last.op = "Rewind"
   /\ ~last.err
   /\ last.obj[1].t = 0
   /\ FullyOpen(St)) =>
    LET fr == C19_FirstFrame(streams, packet, pos, session, MaxPackets + 1)
    IN  fr # <<>> =>
          LET off == PresentationOffset(Big(fr[1].pts), TimeBase(St))
          IN  /\ ~off.neg
              /\ DurationLeq(off, C19_FrameDuration)
              /\ fr[1].pts = C19_FirstServed(pos, session)

\* Position in the source of the packet ReadPacket serves next for stream i
\* when the read cursor is at p; 0 when the source has none left.
C20_Served(p, i) ==
  LET c == {j \in (p + 1)..MaxPackets : SourceStreamIndex(j) = i}
  IN  IF c = {} THEN 0 ELSE CHOOSE j \in c : \A h \in c : j <= h

\* C20 as stated: a Rewind call on the stream of the session leaves, for
\* every other stream, the packet served next and the decode state as they
\* were.
C20_SiblingsKeepPosition ==
  [][last'.op = "Rewind" =>
       \A j \in StreamIds \ {session} :
         /\ C20_Served(pos', j) = C20_Served(pos, j)
         /\ streams'[j] = streams[j]]_vars

\* C20 amended: a Rewind call changes no stream record and not the scratch
\* packet.  When the seek fails the read cursor stays; when it succeeds the
\* cursor, from which the packets of every stream are served, stands right
\* in front of a packet of the rewound stream that is the last one at or
\* before the requested tick (its first packet when none is), so that every
\* other stream is served next its first packet after that position.
C20_RewindMovesSharedCursor ==
  [][last'.op = "Rewind" =>
       /\ streams' = streams
       /\ packet' = packet
       /\ last'.err => pos' = pos
       /\ ~last'.err =>
            LET tick == last'.obj[1].seek.tick
                a    == C20_Served(pos', session)
                mine == {j \in 1..MaxPackets : SourceStreamIndex(j) = session}
            IN  /\ a = pos' + 1
                /\ \A j \in mine : j < a => PacketPts(j) < PacketPts(a)
                /\ \A j \in mine : j > a => PacketPts(j) > tick
                /\ PacketPts(a) <= tick \/ \A j \in mine : j >= a
                /\ \A j \in StreamIds \ {session} :
                     C20_Served(pos', j) = C20_Served(a - 1, j)]_vars

\* A successful Rewind of the session's stream was just made while another
\* stream holds in its decoder the picture of a packet it was served before:
\* that packet is the one it is served next.
C20_Witness ==
  /\ last.op = "Rewind"
  /\ ~last.err
  /\ \E j \in StreamIds \ {session} :
       /\ C20_Served(pos, j) # 0
       /\ \E k \in DOMAIN streams[j].buffered :
            streams[j].buffered[k] = PacketPts(C20_Served(pos, j))

\* C21: every frame returned by ReadVideoFrame on a stream opened with
\* OpenDecode(width, height, alg) has an image of width x height pixels, and
\* its data is the whole RGBA output buffer: 4 * width * height bytes, all
\* of them copied from the buffer.
C21_FrameHasConfiguredSize ==
  (/\ last.op = "ReadFrame"
   /\ St.kind = "video"
   /\ last.obj # <<>>) =>
    LET fr == last.obj[1]
        w  == St.rgbaDims[1]
        h  == St.rgbaDims[2]
    IN  /\ fr.img.width = w
        /\ fr.img.height = h
        /\ fr.data.len = ImageBufferSize(w, h)
        /\ fr.copied = St.bufSize

\* The call went as far as swr_convert: it crashed there, failed there, or
\* returned a frame.
C22_ReachedResampling(r) ==
  r.at \in {"swr_convert", "convert_fail"} \/ r.made # <<>>

\* C22: in every reachable state of an audio stream, whatever ReadAudioFrame
\* call comes next (any native outcome, any frame size n), if the call gets
\* to the resampling step then the output buffer is allocated, its capacity
\* is the recorded bufferSize, and the capacity is at least n.
C22_BufferFitsFrame ==
  St.kind = "audio" =>
    \A f \in AudioReadSteps \cup {"none"}, n \in 1..MaxFrameSize :
      LET r == ReadAudioFrame(St, packet, f, n)
      IN  C22_ReachedResampling(r) =>
            /\ r.st.buffer = "live"
            /\ r.st.bufferCap = r.st.bufferSize
            /\ r.st.bufferCap >= n

\* An audio stream was closed and opened again: the recorded size is that of
\* the largest frame, the buffer is gone, and a read of a smaller frame from
\* the packet at hand gets to the resampling step.
C22_Witness ==
  /\ St.kind = "audio"
  /\ last.op = "ReadPacket"
  /\ FullyOpen(St)
  /\ St.buffer = "nil"
  /\ St.bufferSize = MaxFrameSize
  /\ \E n \in 1..MaxFrameSize :
       /\ n < St.bufferSize
       /\ ReadAudioFrame(St, packet, "none", n).made # <<>>

\* C23: when a ReadFrame call has returned, with a frame, with the request
\* for more input or with an error, neither the scratch packet of the
\* container nor a filter packet of the stream holds a reference.
C23_PacketsUnreferenced ==
  (last.op = "ReadFrame" /\ ~last.panic) =>
    /\ packet.state # "ref"
    /\ St.filterInPacket # "ref"
    /\ St.filterOutPacket # "ref"

\* C24: a ReadFrame call that returns reports more == false exactly when it
\* returns an error; it never returns (nil, false, nil).
C24_NoMoreIffError ==
  (last.op = "ReadFrame" /\ ~last.panic) =>
    /\ ~last.more <=> last.err
    /\ ~(~last.val /\ ~last.more /\ ~last.err)

\* ReadFrame returned the request for more input: a Frame holding no frame,
\* more, no error.
C24_Witness ==
  /\ last.op = "ReadFrame"
  /\ ~last.panic
  /\ last.at = "recv_again"
  /\ last.obj = <<>> /\ last.more /\ ~last.err

\* C25: no Open, OpenDecode or Close call, in whatever order they are made,
\* loses a handle: every handle a call overwrites was freed before or is nil,
\* so the stream never has a second live decode context, decode-target frame
\* or conversion context beside the one it references.
C25_NoHandleLost ==
  last.op \in {"Open", "Close"} => last.leaked = {}

\* C26: an ApplyFilter call that returns an error leaves the stream without
\* a filter: no filter context, no filter packets, and Filter() as it was
\* before the call, so that ReadPacket delivers the stream's packets
\* unfiltered.
C26_FailedApplyLeavesNoFilter ==
  [][(last'.op = "ApplyFilter" /\ last'.err) =>
       /\ St'.filterCtx = "nil"
       /\ St'.filterInPacket = "nil"
       /\ St'.filterOutPacket = "nil"
       /\ St'.filterArgs = St.filterArgs]_vars

====
